---- MODULE Spec2Model ----
(***************************************************************************)
(* Session workflow of src/src/App.js (PsychoAI Test): the React state of  *)
(* the App component, its event handlers and the continuations of its      *)
(* asynchronous handlers.  Every await of the source is a step boundary:   *)
(* an action is one synchronous segment of a handler, with all the state   *)
(* setters of that segment applied together (React batches them).          *)
(* Values a handler reads from its closure (numQuestions, questions,       *)
(* userAnswers, selectedTopic, customTopic) are captured in the call       *)
(* record when the handler starts.                                         *)
(* The session is taken after anonymous sign-in succeeded, so that the     *)
(* guard "db && currentUserId" of the store accesses holds.  A question is *)
(* represented by its text, the field the asked-record is compared on.     *)
(* A control takes input whenever the code renders it and does not        *)
(* disable it: the busy overlay and the exit dialog are drawn over the     *)
(* card but leave the controls under them operable from the keyboard.      *)
(* ev is a history variable: the last segment that ran and the inputs it   *)
(* worked on.                                                              *)
(***************************************************************************)
EXTENDS Integers, Sequences, FiniteSets, Bags, TLC

\* ---------------------------------------------------------------- bounds
\* number of handler invocations that may be awaiting a response at once
MaxCalls == 2
\* longest list the Question Service returns in the workflow specification
MaxReturned == 2
\* longest list the Question Service returns in the generation specification
MaxParsed == 7
\* longest asked-record in the store when the workflow specification starts
MaxAsked == 1

\* ------------------------------------------------------ program constants
DefaultNumQuestions == 5
DeepNumQuestions == 15
NumQuestionsChoices == {DefaultNumQuestions, DeepNumQuestions}

\* one of the seven predefined topics
psychologicalTopics == {"Anxiety Check"}
\* texts the user can type into the custom topic input
CustomTexts == {"", "anxiety check"}
\* the same with a text of white space only
TopicTexts == CustomTexts \cup {" "}
\* question texts the Question Service can produce
Texts == {"Q1", "Q2"}
\* answer options of a question
Options == {"Agree"}
\* the same with a second option
AnswerOptions == Options \cup {"Disagree"}
\* reasons the classifier can state
Reasons == {"not psychology"}

\* ----------------------------------------------------------- pure helpers
Min(a, b) == IF a < b THEN a ELSE b

Range(s) == {s[i] : i \in DOMAIN s}

SeqsUpTo(S, n) == UNION {[1..k -> S] : k \in 0..n}

\* Array.prototype.includes
Includes(s, x) == \E i \in DOMAIN s : s[i] = x

\* sequences without a repeated element, as Array.from(new Set(...)) yields
NoDup(s) == \A i, j \in DOMAIN s : s[i] = s[j] => i = j

\* trim that leaves white space in place
TrimKeepsBlanks(text) == text

\* String.prototype.trim on the typed texts
Trim(text) == IF text \in {"", " "} THEN "" ELSE text

\* topic.toLowerCase().replace(/[^a-z0-9]+/g,'-').replace(/^-+|-+$/g,'')
DocId(topic) ==
  CASE topic = "Anxiety Check" -> "anxiety-check"
    [] topic = "anxiety check" -> "anxiety-check"
    [] OTHER -> ""

DocIds == {"anxiety-check"}

\* FilterNew without the filter
FilterNewKeepsAll(parsedQuestions, answeredQuestionTexts) == parsedQuestions

\* parsedQuestions.filter(q => !answeredQuestionTexts.includes(q.question))
FilterNew(parsedQuestions, answeredQuestionTexts) ==
  SelectSeq(parsedQuestions, LAMBDA q : ~Includes(answeredQuestionTexts, q))

\* SliceTo without the cut
SliceToKeepsAll(s, n) == s

\* newQuestions.slice(0, numQuestions)
SliceTo(s, n) == SubSeq(s, 1, Min(n, Len(s)))

\* newQuestions.length < numQuestions && answeredQuestionTexts.length > 0
Exhausted(parsedQuestions, answeredQuestionTexts, n) ==
  /\ Len(FilterNew(parsedQuestions, answeredQuestionTexts)) < n
  /\ Len(answeredQuestionTexts) > 0

\* newQuestions.length === 0 && answeredQuestionTexts.length === 0
NothingNew(parsedQuestions, answeredQuestionTexts) ==
  /\ Len(FilterNew(parsedQuestions, answeredQuestionTexts)) = 0
  /\ Len(answeredQuestionTexts) = 0

\* the argument of setQuestions in generateQuestions
AcceptedQuestions(parsedQuestions, answeredQuestionTexts, n) ==
  IF Exhausted(parsedQuestions, answeredQuestionTexts, n)
    THEN parsedQuestions
  ELSE IF NothingNew(parsedQuestions, answeredQuestionTexts)
    THEN parsedQuestions
  ELSE SliceTo(FilterNew(parsedQuestions, answeredQuestionTexts), n)

\* UnansweredIndices counting the questions from 1
UnansweredIndicesFromOne(qs, answers) ==
  {i \in 1..Len(qs) : i \notin DOMAIN answers}

\* the indices analyzeResults collects with questions.forEach
UnansweredIndices(qs, answers) ==
  {i \in 0..(Len(qs) - 1) : i \notin DOMAIN answers}

\* ------------------------------------------------------------------ state
VARIABLES
  stage,                     \* useState('welcome')
  selectedTopic,             \* useState('')
  questions,                 \* useState([]): the question texts, in order
  userAnswers,               \* useState({}): question index (from 0) -> option
  analysisResult,            \* useState(null)
  stabilityLevels,           \* useState(null)
  aiLoading,                 \* useState(false)
  showExitConfirmation,      \* useState(false)
  customTopic,               \* useState('')
  showTopicWarning,          \* useState(false)
  topicWarningMessage,       \* useState('')
  numQuestions,              \* useState(5)
  unansweredQuestionIndices, \* useState([]): kept as the set of its entries
  questionnaireError,        \* useState(null)
  error,                     \* useState(null)
  store,                     \* the answeredQuestions documents, by document id
  calls,                     \* handler invocations suspended at an await (a bag)
  ev                         \* history: the segment that ran last and its inputs

vars == <<stage, selectedTopic, questions, userAnswers, analysisResult,
          stabilityLevels, aiLoading, showExitConfirmation, customTopic,
          showTopicWarning, topicWarningMessage, numQuestions,
          unansweredQuestionIndices, questionnaireError, error, store, calls, ev>>

Null == "null"
EmptyAnswers == <<>>

\* messages of setQuestionnaireError / setTopicWarningMessage / setError
MsgAnswerAll == "Please answer all questions before proceeding."
MsgEnterTopic == "Please enter a topic."
MsgOffDomain(reason) == [text |-> "not related to psychology", reason |-> reason]
NoWarningMessage == [text |-> "", reason |-> ""]
EnterTopicMessage == [text |-> MsgEnterTopic, reason |-> ""]

\* a handler invocation suspended at an await, with what its closure holds
Call(kind, pc, topic, n, asked, parsed, qs, answers) ==
  [kind |-> kind, pc |-> pc, topic |-> topic, n |-> n, asked |-> asked,
   parsed |-> parsed, qs |-> qs, answers |-> answers]

\* what ev holds: the segment that ran last and what it worked on (the topic,
\* the asked-record read, the questions returned or held, the question count
\* or index, the option chosen and the indices flagged before an answer)
Event(op, topic, asked, parsed, n) ==
  [op |-> op, topic |-> topic, asked |-> asked, parsed |-> parsed, n |-> n,
   answer |-> "", flagged |-> {}]

Ev(op) == Event(op, "", <<>>, <<>>, 0)

Suspend(c) == calls (+) SetToBag({c})
Resume(c) == calls (-) SetToBag({c})
Outstanding == BagToSet(calls)
CanSuspend == BagCardinality(calls) < MaxCalls

\* the records the store can hold for one topic
AskedRecords == {s \in SeqsUpTo(Texts, Cardinality(Texts)) : NoDup(s)}

\* "if (error && !aiLoading && stage !== 'questionnaire')": only Reload is shown
ErrorView == error # Null /\ ~aiLoading /\ stage # "questionnaire"
MainView == ~ErrorView

\* the state the hooks give the component when it mounts
Mounted ==
  /\ stage = "welcome"
  /\ selectedTopic = ""
  /\ questions = <<>>
  /\ userAnswers = EmptyAnswers
  /\ analysisResult = Null
  /\ stabilityLevels = Null
  /\ aiLoading = FALSE
  /\ showExitConfirmation = FALSE
  /\ customTopic = ""
  /\ showTopicWarning = FALSE
  /\ topicWarningMessage = NoWarningMessage
  /\ numQuestions = DefaultNumQuestions
  /\ unansweredQuestionIndices = {}
  /\ questionnaireError = Null
  /\ error = Null
  /\ calls = EmptyBag
  /\ ev = Ev("init")

\* the records the store holds when the component mounts
InitialRecords == {s \in AskedRecords : Len(s) <= MaxAsked}

Init ==
  /\ Mounted
  /\ store \in [DocIds -> InitialRecords]

\* ----------------------------------------------------------- view guards
\* controls rendered whatever the stage
ShownInAnyStage(s) == MainView

\* the controls of each stage are rendered only in that stage, and only when
\* the error view has not taken over.  The "AI is thinking" overlay and the
\* exit modal are drawn over them but disable none of them: a covered control
\* keeps the keyboard focus order and its handler
Shown(s) == MainView /\ stage = s

\* "disabled={aiLoading}" on Generate Custom Test and on Get Results
ButtonEnabled == ~aiLoading

\* ------------------------------------------------- welcome, topicSelection
\* onClick={() => setStage('topicSelection')}
StartTest ==
  /\ Shown("welcome")
  /\ stage' = "topicSelection"
  /\ ev' = Ev("startTest")
  /\ UNCHANGED <<selectedTopic, questions, userAnswers, analysisResult,
                 stabilityLevels, aiLoading, showExitConfirmation, customTopic,
                 showTopicWarning, topicWarningMessage, numQuestions,
                 unansweredQuestionIndices, questionnaireError, error, store, calls>>

\* onClick={() => setStage('welcome')}
Back ==
  /\ Shown("topicSelection")
  /\ stage' = "welcome"
  /\ ev' = Ev("back")
  /\ UNCHANGED <<selectedTopic, questions, userAnswers, analysisResult,
                 stabilityLevels, aiLoading, showExitConfirmation, customTopic,
                 showTopicWarning, topicWarningMessage, numQuestions,
                 unansweredQuestionIndices, questionnaireError, error, store, calls>>

\* onChange={() => setNumQuestions(5)} / setNumQuestions(15)
SetNumQuestions(n) ==
  /\ Shown("topicSelection")
  /\ numQuestions # n
  /\ numQuestions' = n
  /\ ev' = Ev("setNumQuestions")
  /\ UNCHANGED <<stage, selectedTopic, questions, userAnswers, analysisResult,
                 stabilityLevels, aiLoading, showExitConfirmation, customTopic,
                 showTopicWarning, topicWarningMessage,
                 unansweredQuestionIndices, questionnaireError, error, store, calls>>

\* onChange of the custom topic input
TypeCustomTopic(text) ==
  /\ Shown("topicSelection")
  /\ customTopic # text
  /\ customTopic' = text
  /\ showTopicWarning' = FALSE
  /\ ev' = Ev("typeCustomTopic")
  /\ UNCHANGED <<stage, selectedTopic, questions, userAnswers, analysisResult,
                 stabilityLevels, aiLoading, showExitConfirmation,
                 topicWarningMessage, numQuestions,
                 unansweredQuestionIndices, questionnaireError, error, store, calls>>

\* generateQuestions up to its first await (getDoc): the invocation it suspends
GenerateQuestionsCall(topic, n) ==
  Call("generateQuestions", "getDoc", topic, n, <<>>, <<>>, <<>>, EmptyAnswers)

\* a topic button: setSelectedTopic(topic); generateQuestions(topic)
SelectTopic(topic) ==
  /\ Shown("topicSelection")
  /\ CanSuspend
  /\ selectedTopic' = topic
  /\ aiLoading' = TRUE
  /\ error' = Null
  /\ questionnaireError' = Null
  /\ unansweredQuestionIndices' = {}
  /\ calls' = Suspend(GenerateQuestionsCall(topic, numQuestions))
  /\ ev' = Ev("selectTopic")
  /\ UNCHANGED <<stage, questions, userAnswers, analysisResult, stabilityLevels,
                 showExitConfirmation, customTopic, showTopicWarning,
                 topicWarningMessage, numQuestions, store>>

\* validateCustomTopic with nothing typed: the early return
ValidateEmpty ==
  /\ Shown("topicSelection")
  /\ ButtonEnabled
  /\ Trim(customTopic) = ""
  /\ showTopicWarning' = TRUE
  /\ topicWarningMessage' = EnterTopicMessage
  /\ ev' = Ev("validateEmpty")
  /\ UNCHANGED <<stage, selectedTopic, questions, userAnswers, analysisResult,
                 stabilityLevels, aiLoading, showExitConfirmation, customTopic,
                 numQuestions, unansweredQuestionIndices, questionnaireError,
                 error, store, calls>>

\* validateCustomTopic up to its await of the classifier
ValidateStart ==
  /\ Shown("topicSelection")
  /\ ButtonEnabled
  /\ Trim(customTopic) # ""
  /\ CanSuspend
  /\ aiLoading' = TRUE
  /\ error' = Null
  /\ questionnaireError' = Null
  /\ showTopicWarning' = FALSE
  /\ topicWarningMessage' = NoWarningMessage
  /\ calls' = Suspend(Call("validateCustomTopic", "classify", customTopic,
                           numQuestions, <<>>, <<>>, <<>>, EmptyAnswers))
  /\ ev' = Ev("validateStart")
  /\ UNCHANGED <<stage, selectedTopic, questions, userAnswers, analysisResult,
                 stabilityLevels, showExitConfirmation, customTopic, numQuestions,
                 unansweredQuestionIndices, store>>

\* ----------------------------------------------------------- questionnaire
\* setUserAnswers(prev => ({...prev, [questionIndex]: answer}))
WithAnswer(answers, questionIndex, answer) ==
  [k \in (DOMAIN answers) \cup {questionIndex} |->
     IF k = questionIndex THEN answer ELSE answers[k]]

\* handleAnswerChange that clears the questionnaire error on any flagged index
HandleAnswerChangeAlwaysClears(questionIndex, answer) ==
  /\ Shown("questionnaire")
  /\ questionIndex \in 0..(Len(questions) - 1)
  /\ ~(questionIndex \in DOMAIN userAnswers /\ userAnswers[questionIndex] = answer)
  /\ userAnswers' = WithAnswer(userAnswers, questionIndex, answer)
  /\ IF questionIndex \in unansweredQuestionIndices
       THEN /\ unansweredQuestionIndices' = unansweredQuestionIndices \ {questionIndex}
            /\ questionnaireError' = Null
       ELSE UNCHANGED <<unansweredQuestionIndices, questionnaireError>>
  /\ ev' = [Ev("handleAnswerChange") EXCEPT !.n = questionIndex,
                                            !.answer = answer,
                                            !.flagged = unansweredQuestionIndices]
  /\ UNCHANGED <<stage, selectedTopic, questions, analysisResult, stabilityLevels,
                 aiLoading, showExitConfirmation, customTopic, showTopicWarning,
                 topicWarningMessage, numQuestions, error, store, calls>>

\* handleAnswerChange(questionIndex, answer), from the radio of a rendered question
HandleAnswerChange(questionIndex, answer) ==
  /\ Shown("questionnaire")
  /\ questionIndex \in 0..(Len(questions) - 1)
  /\ ~(questionIndex \in DOMAIN userAnswers /\ userAnswers[questionIndex] = answer)
  /\ userAnswers' = WithAnswer(userAnswers, questionIndex, answer)
  /\ IF questionIndex \in unansweredQuestionIndices
       THEN /\ unansweredQuestionIndices' = unansweredQuestionIndices \ {questionIndex}
            /\ questionnaireError' =
                 IF Cardinality(unansweredQuestionIndices) = 1 /\ questionnaireError # Null
                   THEN Null ELSE questionnaireError
       ELSE UNCHANGED <<unansweredQuestionIndices, questionnaireError>>
  /\ ev' = [Ev("handleAnswerChange") EXCEPT !.n = questionIndex,
                                            !.answer = answer,
                                            !.flagged = unansweredQuestionIndices]
  /\ UNCHANGED <<stage, selectedTopic, questions, analysisResult, stabilityLevels,
                 aiLoading, showExitConfirmation, customTopic, showTopicWarning,
                 topicWarningMessage, numQuestions, error, store, calls>>

\* Back to Topics: setShowExitConfirmation(true)
RequestExit ==
  /\ Shown("questionnaire")
  /\ ~showExitConfirmation
  /\ showExitConfirmation' = TRUE
  /\ ev' = Ev("requestExit")
  /\ UNCHANGED <<stage, selectedTopic, questions, userAnswers, analysisResult,
                 stabilityLevels, aiLoading, customTopic, showTopicWarning,
                 topicWarningMessage, numQuestions, unansweredQuestionIndices,
                 questionnaireError, error, store, calls>>

\* a Cancel that also drops the answers
CancelExitClearsAnswers ==
  /\ MainView
  /\ showExitConfirmation
  /\ showExitConfirmation' = FALSE
  /\ ev' = Ev("cancelExit")
  /\ userAnswers' = EmptyAnswers
  /\ UNCHANGED <<stage, selectedTopic, questions, analysisResult,
                 stabilityLevels, aiLoading, customTopic, showTopicWarning,
                 topicWarningMessage, numQuestions, unansweredQuestionIndices,
                 questionnaireError, error, store, calls>>

\* Cancel in the modal: setShowExitConfirmation(false)
CancelExit ==
  /\ MainView
  /\ showExitConfirmation
  /\ showExitConfirmation' = FALSE
  /\ ev' = Ev("cancelExit")
  /\ UNCHANGED <<stage, selectedTopic, questions, userAnswers, analysisResult,
                 stabilityLevels, aiLoading, customTopic, showTopicWarning,
                 topicWarningMessage, numQuestions, unansweredQuestionIndices,
                 questionnaireError, error, store, calls>>

\* the exit handler without setUserAnswers({})
confirmExitTestKeepsAnswers ==
  /\ MainView
  /\ showExitConfirmation
  /\ showExitConfirmation' = FALSE
  /\ stage' = "topicSelection"
  /\ selectedTopic' = ""
  /\ questions' = <<>>
  /\ userAnswers' = userAnswers
  /\ analysisResult' = Null
  /\ stabilityLevels' = Null
  /\ customTopic' = ""
  /\ showTopicWarning' = FALSE
  /\ topicWarningMessage' = NoWarningMessage
  /\ numQuestions' = DefaultNumQuestions
  /\ error' = Null
  /\ questionnaireError' = Null
  /\ unansweredQuestionIndices' = {}
  /\ ev' = Event("confirmExitTest", selectedTopic, <<>>, questions, numQuestions)
  /\ UNCHANGED <<aiLoading, store, calls>>

\* Exit Test in the modal
confirmExitTest ==
  /\ MainView
  /\ showExitConfirmation
  /\ showExitConfirmation' = FALSE
  /\ stage' = "topicSelection"
  /\ selectedTopic' = ""
  /\ questions' = <<>>
  /\ userAnswers' = EmptyAnswers
  /\ analysisResult' = Null
  /\ stabilityLevels' = Null
  /\ customTopic' = ""
  /\ showTopicWarning' = FALSE
  /\ topicWarningMessage' = NoWarningMessage
  /\ numQuestions' = DefaultNumQuestions
  /\ error' = Null
  /\ questionnaireError' = Null
  /\ unansweredQuestionIndices' = {}
  /\ ev' = Event("confirmExitTest", selectedTopic, <<>>, questions, numQuestions)
  /\ UNCHANGED <<aiLoading, store, calls>>

\* a failed submit that flags the indices without setQuestionnaireError
SubmitInvalidNoMessage ==
  /\ Shown("questionnaire")
  /\ ButtonEnabled
  /\ UnansweredIndices(questions, userAnswers) # {}
  /\ unansweredQuestionIndices' = UnansweredIndices(questions, userAnswers)
  /\ questionnaireError' = questionnaireError
  /\ ev' = Ev("submitInvalid")
  /\ UNCHANGED <<stage, selectedTopic, questions, userAnswers, analysisResult,
                 stabilityLevels, aiLoading, showExitConfirmation, customTopic,
                 showTopicWarning, topicWarningMessage, numQuestions, error,
                 store, calls>>

\* analyzeResults when validation finds unanswered questions: the early return
SubmitInvalid ==
  /\ Shown("questionnaire")
  /\ ButtonEnabled
  /\ UnansweredIndices(questions, userAnswers) # {}
  /\ unansweredQuestionIndices' = UnansweredIndices(questions, userAnswers)
  /\ questionnaireError' = MsgAnswerAll
  /\ ev' = Ev("submitInvalid")
  /\ UNCHANGED <<stage, selectedTopic, questions, userAnswers, analysisResult,
                 stabilityLevels, aiLoading, showExitConfirmation, customTopic,
                 showTopicWarning, topicWarningMessage, numQuestions, error,
                 store, calls>>

\* analyzeResults up to its await of the analysis request
SubmitStart ==
  /\ Shown("questionnaire")
  /\ ButtonEnabled
  /\ UnansweredIndices(questions, userAnswers) = {}
  /\ CanSuspend
  /\ aiLoading' = TRUE
  /\ error' = Null
  /\ questionnaireError' = Null
  /\ unansweredQuestionIndices' = {}
  /\ calls' = Suspend(Call("analyzeResults", "analysis", selectedTopic,
                           numQuestions, <<>>, <<>>, questions, userAnswers))
  /\ ev' = Ev("submitStart")
  /\ UNCHANGED <<stage, selectedTopic, questions, userAnswers, analysisResult,
                 stabilityLevels, showExitConfirmation, customTopic,
                 showTopicWarning, topicWarningMessage, numQuestions, store>>

\* ------------------------------------------- generateQuestions, continued
ErrGenFailed == "Failed to generate questions. Please try again."
ErrGenThrown == "Error generating questions"
ErrAnalyzeFailed == "Failed to analyze results. Please try again."
ErrAnalyzeThrown == "Error analyzing results or generating stability levels"
ErrValidateFailed == "Failed to validate topic. Please try again."
ErrValidateThrown == "Error validating topic"

IsAt(c, kind, pc) == c \in Outstanding /\ c.kind = kind /\ c.pc = pc

\* what the Question Service can answer: a list of question texts
Responses == SeqsUpTo(Texts, MaxReturned)
LongResponses == SeqsUpTo(Texts, MaxParsed)

\* GenFails without the finally block: aiLoading is left as it is
GenFailsKeepsLoading(c, msg, op) ==
  /\ error' = msg
  /\ calls' = Resume(c)
  /\ ev' = Ev(op)
  /\ UNCHANGED <<stage, selectedTopic, questions, userAnswers, analysisResult,
                 stabilityLevels, aiLoading, showExitConfirmation, customTopic,
                 showTopicWarning, topicWarningMessage, numQuestions,
                 unansweredQuestionIndices, questionnaireError, store>>

\* setError(...) on a failure path of generateQuestions, then the finally block
GenFails(c, msg, op) ==
  /\ error' = msg
  /\ aiLoading' = FALSE
  /\ calls' = Resume(c)
  /\ ev' = Ev(op)
  /\ UNCHANGED <<stage, selectedTopic, questions, userAnswers, analysisResult,
                 stabilityLevels, showExitConfirmation, customTopic,
                 showTopicWarning, topicWarningMessage, numQuestions,
                 unansweredQuestionIndices, questionnaireError, store>>

\* GenAccepts without setUserAnswers({})
GenAcceptsKeepsAnswers(c, accepted, parsed) ==
  /\ questions' = accepted
  /\ stage' = "questionnaire"
  /\ aiLoading' = FALSE
  /\ calls' = Resume(c)
  /\ ev' = Event("genAccept", c.topic, c.asked, parsed, c.n)
  /\ UNCHANGED <<selectedTopic, userAnswers, analysisResult, stabilityLevels,
                 showExitConfirmation, customTopic, showTopicWarning,
                 topicWarningMessage, numQuestions, unansweredQuestionIndices,
                 questionnaireError, error>>

\* setQuestions(accepted); setUserAnswers({}); setStage('questionnaire'); finally
GenAccepts(c, accepted, parsed) ==
  /\ questions' = accepted
  /\ userAnswers' = EmptyAnswers
  /\ stage' = "questionnaire"
  /\ aiLoading' = FALSE
  /\ calls' = Resume(c)
  /\ ev' = Event("genAccept", c.topic, c.asked, parsed, c.n)
  /\ UNCHANGED <<selectedTopic, analysisResult, stabilityLevels,
                 showExitConfirmation, customTopic, showTopicWarning,
                 topicWarningMessage, numQuestions, unansweredQuestionIndices,
                 questionnaireError, error>>

\* await getDoc(docRef) returns: answeredQuestionTexts is read from the store
GenDocRead(c) ==
  /\ IsAt(c, "generateQuestions", "getDoc")
  /\ calls' = Resume(c) (+)
       SetToBag({[c EXCEPT !.pc = "fetch", !.asked = store[DocId(c.topic)]]})
  /\ ev' = Ev("genDocRead")
  /\ UNCHANGED <<stage, selectedTopic, questions, userAnswers, analysisResult,
                 stabilityLevels, aiLoading, showExitConfirmation, customTopic,
                 showTopicWarning, topicWarningMessage, numQuestions,
                 unansweredQuestionIndices, questionnaireError, error, store>>

\* await getDoc(docRef) rejects
GenDocReadThrows(c) ==
  /\ IsAt(c, "generateQuestions", "getDoc")
  /\ GenFails(c, ErrGenThrown, "genThrow")

\* fetch rejects, response.json() rejects or JSON.parse throws
GenFetchThrows(c) ==
  /\ IsAt(c, "generateQuestions", "fetch")
  /\ GenFails(c, ErrGenThrown, "genThrow")

\* the response has no candidates / content / parts
GenNoCandidates(c) ==
  /\ IsAt(c, "generateQuestions", "fetch")
  /\ GenFails(c, ErrGenFailed, "genNoCandidates")

\* the response parses to the list parsedQuestions
GenParsed(c, parsedQuestions) ==
  /\ IsAt(c, "generateQuestions", "fetch")
  /\ IF Exhausted(parsedQuestions, c.asked, c.n)
       THEN \* await setDoc(docRef, { questions: [] })
            /\ calls' = Resume(c) (+)
                 SetToBag({[c EXCEPT !.pc = "setDoc", !.parsed = parsedQuestions]})
            /\ ev' = Event("genAwaitSetDoc", c.topic, c.asked, parsedQuestions, c.n)
            /\ UNCHANGED <<stage, selectedTopic, questions, userAnswers,
                           analysisResult, stabilityLevels, aiLoading,
                           showExitConfirmation, customTopic, showTopicWarning,
                           topicWarningMessage, numQuestions,
                           unansweredQuestionIndices, questionnaireError, error,
                           store>>
       ELSE /\ GenAccepts(c, AcceptedQuestions(parsedQuestions, c.asked, c.n),
                          parsedQuestions)
            /\ UNCHANGED store

\* GenSetDocDone when the write does not clear the record
GenSetDocDoneKeepsRecord(c) ==
  /\ IsAt(c, "generateQuestions", "setDoc")
  /\ UNCHANGED store
  /\ GenAccepts(c, AcceptedQuestions(c.parsed, c.asked, c.n), c.parsed)

\* await setDoc(docRef, { questions: [] }) returns
GenSetDocDone(c) ==
  /\ IsAt(c, "generateQuestions", "setDoc")
  /\ store' = [store EXCEPT ![DocId(c.topic)] = <<>>]
  /\ GenAccepts(c, AcceptedQuestions(c.parsed, c.asked, c.n), c.parsed)

\* await setDoc(docRef, { questions: [] }) rejects
GenSetDocThrows(c) ==
  /\ IsAt(c, "generateQuestions", "setDoc")
  /\ GenFails(c, ErrGenThrown, "genThrow")

\* ---------------------------------------------- analyzeResults, continued
\* what a well-formed analysis response carries: {analysis, advice}
AnalysisValues == {"analysis and advice"}

\* a failure of step (a) that misses the return and goes on to the stability
\* request
AnalyzeFailsGoesOn(c, msg, op) ==
  /\ error' = msg
  /\ aiLoading' = FALSE
  /\ calls' = Resume(c) (+) SetToBag({[c EXCEPT !.pc = "stability"]})
  /\ ev' = Event(op, c.topic, <<>>, c.qs, 0)
  /\ UNCHANGED <<stage, selectedTopic, questions, userAnswers, analysisResult,
                 stabilityLevels, showExitConfirmation, customTopic,
                 showTopicWarning, topicWarningMessage, numQuestions,
                 unansweredQuestionIndices, questionnaireError, store>>

\* setError(...) on a failure path of analyzeResults, then setAiLoading(false)
AnalyzeFails(c, msg, op) ==
  /\ error' = msg
  /\ aiLoading' = FALSE
  /\ calls' = Resume(c)
  /\ ev' = Event(op, c.topic, <<>>, c.qs, 0)
  /\ UNCHANGED <<stage, selectedTopic, questions, userAnswers, analysisResult,
                 stabilityLevels, showExitConfirmation, customTopic,
                 showTopicWarning, topicWarningMessage, numQuestions,
                 unansweredQuestionIndices, questionnaireError, store>>

\* the object line 254 takes candidates[0].content.parts[0].text from:
\* stabilityResultData, which is declared (const) only at line 304
JsonStringSource == "stabilityResultData"

\* reading stabilityResultData before its declaration throws (a ReferenceError,
\* or a TypeError on undefined when the build turns const into var)
JsonStringReadThrows == JsonStringSource # "analysisResultData"

\* fetch rejects or analysisResponse.json() rejects
AnalysisThrows(c) ==
  /\ IsAt(c, "analyzeResults", "analysis")
  /\ AnalyzeFails(c, ErrAnalyzeThrown, "analysisThrow")

\* the response has no candidates / content / parts: the else branch
AnalysisNoCandidates(c) ==
  /\ IsAt(c, "analyzeResults", "analysis")
  /\ AnalyzeFails(c, ErrAnalyzeFailed, "analysisNoCandidates")

\* the response is well-formed and carries the analysis value
AnalysisWellFormed(c, value) ==
  /\ IsAt(c, "analyzeResults", "analysis")
  /\ IF JsonStringReadThrows
       THEN AnalyzeFails(c, ErrAnalyzeThrown, "analysisWellFormed")
       ELSE \* setAnalysisResult(parsedAnalysis), then the stability request
            /\ analysisResult' = value
            /\ calls' = Resume(c) (+) SetToBag({[c EXCEPT !.pc = "stability"]})
            /\ ev' = Ev("analysisWellFormed")
            /\ UNCHANGED <<stage, selectedTopic, questions, userAnswers,
                           stabilityLevels, aiLoading, showExitConfirmation,
                           customTopic, showTopicWarning, topicWarningMessage,
                           numQuestions, unansweredQuestionIndices,
                           questionnaireError, error, store>>

\* ------------------------------------------ validateCustomTopic, continued
\* a failure path of validateCustomTopic without the finally block
ValidateFailsKeepsLoading(c, msg, op) ==
  /\ error' = msg
  /\ aiLoading' = aiLoading
  /\ calls' = Resume(c)
  /\ ev' = Ev(op)
  /\ UNCHANGED <<stage, selectedTopic, questions, userAnswers, analysisResult,
                 stabilityLevels, showExitConfirmation, customTopic,
                 showTopicWarning, topicWarningMessage, numQuestions,
                 unansweredQuestionIndices, questionnaireError, store>>

\* setError(...) on a failure path of validateCustomTopic; finally
\* setAiLoading(false)
ValidateFails(c, msg, op) ==
  /\ error' = msg
  /\ aiLoading' = FALSE
  /\ calls' = Resume(c)
  /\ ev' = Ev(op)
  /\ UNCHANGED <<stage, selectedTopic, questions, userAnswers, analysisResult,
                 stabilityLevels, showExitConfirmation, customTopic,
                 showTopicWarning, topicWarningMessage, numQuestions,
                 unansweredQuestionIndices, questionnaireError, store>>

\* fetch rejects, response.json() rejects or JSON.parse throws
ClassifyThrows(c) ==
  /\ IsAt(c, "validateCustomTopic", "classify")
  /\ ValidateFails(c, ErrValidateThrown, "classifyThrow")

\* the response has no candidates / content / parts
ClassifyNoCandidates(c) ==
  /\ IsAt(c, "validateCustomTopic", "classify")
  /\ ValidateFails(c, ErrValidateFailed, "classifyNoCandidates")

\* isPsychological: setSelectedTopic(customTopic); generateQuestions(customTopic)
\* runs to its first await and is not awaited; then the finally block
ClassifyOnDomain(c) ==
  /\ IsAt(c, "validateCustomTopic", "classify")
  /\ selectedTopic' = c.topic
  /\ error' = Null
  /\ questionnaireError' = Null
  /\ unansweredQuestionIndices' = {}
  /\ aiLoading' = FALSE
  /\ calls' = Resume(c) (+) SetToBag({GenerateQuestionsCall(c.topic, c.n)})
  /\ ev' = Ev("classifyOnDomain")
  /\ UNCHANGED <<stage, questions, userAnswers, analysisResult, stabilityLevels,
                 showExitConfirmation, customTopic, showTopicWarning,
                 topicWarningMessage, numQuestions, store>>

\* the off-domain branch reporting through setError
ClassifyOffDomainSetsError(c, reason) ==
  /\ IsAt(c, "validateCustomTopic", "classify")
  /\ error' = reason
  /\ aiLoading' = FALSE
  /\ calls' = Resume(c)
  /\ ev' = Ev("classifyOffDomain")
  /\ UNCHANGED <<stage, selectedTopic, questions, userAnswers, analysisResult,
                 stabilityLevels, showExitConfirmation, customTopic,
                 showTopicWarning, topicWarningMessage,
                 numQuestions, unansweredQuestionIndices, questionnaireError,
                 store>>

\* not isPsychological: the warning with the service's reason; then finally
ClassifyOffDomain(c, reason) ==
  /\ IsAt(c, "validateCustomTopic", "classify")
  /\ showTopicWarning' = TRUE
  /\ topicWarningMessage' = MsgOffDomain(reason)
  /\ aiLoading' = FALSE
  /\ calls' = Resume(c)
  /\ ev' = Ev("classifyOffDomain")
  /\ UNCHANGED <<stage, selectedTopic, questions, userAnswers, analysisResult,
                 stabilityLevels, showExitConfirmation, customTopic,
                 numQuestions, unansweredQuestionIndices, questionnaireError,
                 error, store>>

\* ---------------------------------------------------------------- results
\* the session fields, as a record
Session ==
  [stage |-> stage, selectedTopic |-> selectedTopic, questions |-> questions,
   userAnswers |-> userAnswers, analysisResult |-> analysisResult,
   stabilityLevels |-> stabilityLevels, customTopic |-> customTopic,
   showTopicWarning |-> showTopicWarning,
   topicWarningMessage |-> topicWarningMessage, numQuestions |-> numQuestions,
   unansweredQuestionIndices |-> unansweredQuestionIndices,
   questionnaireError |-> questionnaireError, error |-> error]

\* the session fields when the component mounts
InitialSession ==
  [stage |-> "welcome", selectedTopic |-> "", questions |-> <<>>,
   userAnswers |-> EmptyAnswers, analysisResult |-> Null,
   stabilityLevels |-> Null, customTopic |-> "",
   showTopicWarning |-> FALSE, topicWarningMessage |-> NoWarningMessage,
   numQuestions |-> DefaultNumQuestions, unansweredQuestionIndices |-> {},
   questionnaireError |-> Null, error |-> Null]

\* Start New Test in the results view, rendered under
\* "stage === 'results' && analysisResult": the seven setters of its onClick
StartNewTest(s) ==
  [s EXCEPT !.stage = "welcome",
            !.selectedTopic = "",
            !.questions = <<>>,
            !.userAnswers = EmptyAnswers,
            !.analysisResult = Null,
            !.stabilityLevels = Null,
            !.numQuestions = DefaultNumQuestions]

\* the messages of handleDownloadPdf's three failure paths
ErrPdfFailed == "PDF generation failed"

\* handleDownloadPdf on a failure path (libraries not loaded, no content node,
\* or html2canvas / jsPDF throwing): setError(...) and nothing else
DownloadPdfFails(s) == [s EXCEPT !.error = ErrPdfFailed]

\* whether a session with the fields s shows the results view with its
\* Start New Test button: the error view has not taken over (635) and
\* "stage === 'results' && analysisResult" holds (871)
StartNewTestOffered(s) ==
  /\ ~(s.error # Null /\ ~aiLoading /\ s.stage # "questionnaire")
  /\ s.stage = "results"
  /\ s.analysisResult # Null

\* ------------------------------------------------------------- error view
\* Reload Application: window.location.reload() mounts the component afresh;
\* the suspended invocations die with the page, the store is kept
Reload ==
  /\ ErrorView
  /\ stage' = "welcome"
  /\ selectedTopic' = ""
  /\ questions' = <<>>
  /\ userAnswers' = EmptyAnswers
  /\ analysisResult' = Null
  /\ stabilityLevels' = Null
  /\ aiLoading' = FALSE
  /\ showExitConfirmation' = FALSE
  /\ customTopic' = ""
  /\ showTopicWarning' = FALSE
  /\ topicWarningMessage' = NoWarningMessage
  /\ numQuestions' = DefaultNumQuestions
  /\ unansweredQuestionIndices' = {}
  /\ questionnaireError' = Null
  /\ error' = Null
  /\ calls' = EmptyBag
  /\ ev' = Ev("reload")
  /\ UNCHANGED store

\* ---------------------------------------------------------- specifications
Next ==
  \/ StartTest
  \/ Back
  \/ \E n \in NumQuestionsChoices : SetNumQuestions(n)
  \/ \E text \in CustomTexts : TypeCustomTopic(text)
  \/ \E topic \in psychologicalTopics : SelectTopic(topic)
  \/ ValidateEmpty
  \/ ValidateStart
  \/ \E i \in 0..MaxReturned, o \in Options : HandleAnswerChange(i, o)
  \/ RequestExit
  \/ CancelExit
  \/ confirmExitTest
  \/ SubmitInvalid
  \/ SubmitStart
  \/ Reload
  \/ \E c \in Outstanding : GenDocRead(c)
  \/ \E c \in Outstanding : GenDocReadThrows(c)
  \/ \E c \in Outstanding : GenFetchThrows(c)
  \/ \E c \in Outstanding : GenNoCandidates(c)
  \/ \E c \in Outstanding, parsedQuestions \in Responses : GenParsed(c, parsedQuestions)
  \/ \E c \in Outstanding : GenSetDocDone(c)
  \/ \E c \in Outstanding : GenSetDocThrows(c)
  \/ \E c \in Outstanding : AnalysisThrows(c)
  \/ \E c \in Outstanding : AnalysisNoCandidates(c)
  \/ \E c \in Outstanding, value \in AnalysisValues : AnalysisWellFormed(c, value)
  \/ \E c \in Outstanding : ClassifyThrows(c)
  \/ \E c \in Outstanding : ClassifyNoCandidates(c)
  \/ \E c \in Outstanding : ClassifyOnDomain(c)
  \/ \E c \in Outstanding, reason \in Reasons : ClassifyOffDomain(c, reason)

Spec == Init /\ [][Next]_vars

\* The generation specification: one generateQuestions at a time from the
\* topic selection, for every asked-record, either question count and every list of
\* up to MaxParsed questions the Question Service can return.
InitGen ==
  /\ stage = "topicSelection"
  /\ selectedTopic = ""
  /\ questions = <<>>
  /\ userAnswers = EmptyAnswers
  /\ analysisResult = Null
  /\ stabilityLevels = Null
  /\ aiLoading = FALSE
  /\ showExitConfirmation = FALSE
  /\ customTopic = ""
  /\ showTopicWarning = FALSE
  /\ topicWarningMessage = NoWarningMessage
  /\ numQuestions \in NumQuestionsChoices
  /\ unansweredQuestionIndices = {}
  /\ questionnaireError = Null
  /\ error = Null
  /\ calls = EmptyBag
  /\ ev = Ev("init")
  /\ store \in [DocIds -> AskedRecords]

NextGen ==
  \/ \E topic \in psychologicalTopics : calls = EmptyBag /\ SelectTopic(topic)
  \/ \E c \in Outstanding : GenDocRead(c)
  \/ \E c \in Outstanding : GenDocReadThrows(c)
  \/ \E c \in Outstanding : GenFetchThrows(c)
  \/ \E c \in Outstanding : GenNoCandidates(c)
  \/ \E c \in Outstanding, parsedQuestions \in LongResponses : GenParsed(c, parsedQuestions)
  \/ \E c \in Outstanding : GenSetDocDone(c)
  \/ \E c \in Outstanding : GenSetDocThrows(c)

SpecGen == InitGen /\ [][NextGen]_vars

\* ----------------------------------------------------------------- claims
GenFailureOps == {"genThrow", "genNoCandidates"}
AnalysisFailureOps == {"analysisThrow", "analysisNoCandidates"}

\* the questions of the generation that completed last which are not in the
\* asked-record that generation read
EvFiltered == SelectSeq(ev.parsed, LAMBDA q : q \notin Range(ev.asked))

\* the exhaustion case and the empty case of the generation that completed last
EvExhaustionCase == Len(EvFiltered) < ev.n /\ ev.asked # <<>>
EvEmptyCase == Len(EvFiltered) = 0 /\ ev.asked = <<>>

\* C1: when every question is answered and the Analysis Service returns a
\* well-formed analysis response, the session is in stage results with
\* analysis set to the returned value.
C1_WellFormedAnalysisLeadsToResults ==
  ev.op = "analysisWellFormed" =>
    stage = "results" /\ analysisResult \in AnalysisValues

\* C2: a submit with a missing answer sets unansweredIndices to exactly the
\* indices without an answer and sets the validation error; it issues no
\* service or store call, leaves busy false and the stage questionnaire; and a
\* submit starts the analysis call only when no index is missing.
C2_SubmitWithMissingAnswers ==
  [][ev'.op \in {"submitInvalid", "submitStart"} =>
       LET missing == {i \in 0..(Len(questions) - 1) : i \notin DOMAIN userAnswers}
       IN  IF missing # {}
             THEN /\ ev'.op = "submitInvalid"
                  /\ unansweredQuestionIndices' = missing
                  /\ questionnaireError' # Null
                  /\ calls' = calls
                  /\ store' = store
                  /\ aiLoading' = FALSE
                  /\ stage' = "questionnaire"
                  /\ error' = error
             ELSE /\ ev'.op = "submitStart"
                  /\ BagCardinality(calls') = BagCardinality(calls) + 1
     ]_vars

C2_Witness ==
  /\ ev.op = "submitInvalid"
  /\ Len(questions) = 2
  /\ DOMAIN userAnswers = {0}
  /\ unansweredQuestionIndices = {1}
  /\ questionnaireError = MsgAnswerAll
  /\ stage = "questionnaire"

\* C3: in every reachable state every key of answers is a valid question index.
C3_AnswerKeysAreQuestionIndices ==
  DOMAIN userAnswers \subseteq 0..(Len(questions) - 1)

C3_Witness ==
  /\ Len(questions) = 2
  /\ DOMAIN userAnswers = {1}
  /\ calls # EmptyBag

\* C4: the questions a generation accepts are at most desiredQuestionCount,
\* whatever the asked-record and the returned list are.
C4_AtMostDesiredCount ==
  ev.op = "genAccept" => Len(questions) <= ev.n

\* C5: unless the exhaustion rule fired, no accepted question has a text that
\* is in the asked-record the generation read.
C5_NoAskedTextUnlessExhausted ==
  (ev.op = "genAccept" /\ ~EvExhaustionCase) =>
    \A i \in DOMAIN questions : questions[i] \notin Range(ev.asked)

C5_Witness ==
  /\ ev.op = "genAccept"
  /\ ~EvExhaustionCase
  /\ ev.asked # <<>>
  /\ \E i \in DOMAIN ev.parsed : ev.parsed[i] \in Range(ev.asked)
  /\ questions # <<>>

\* C6: in the exhaustion case the asked-record of the topic is cleared, the
\* unfiltered returned list is accepted and the stage is questionnaire.
C6_ExhaustionRule ==
  (ev.op = "genAccept" /\ EvExhaustionCase) =>
    /\ store[DocId(ev.topic)] = <<>>
    /\ questions = ev.parsed
    /\ userAnswers = EmptyAnswers
    /\ stage = "questionnaire"

C6_Witness ==
  /\ ev.op = "genAccept"
  /\ ev.n = DefaultNumQuestions
  /\ Len(ev.asked) = 2
  /\ ev.parsed = ev.asked
  /\ questions = ev.parsed
  /\ store[DocId(ev.topic)] = <<>>

\* C7 as stated: outside the exhaustion and the empty case the accepted list
\* has exactly desiredQuestionCount entries.
C7_ExactlyDesiredCount ==
  (ev.op = "genAccept" /\ ~EvExhaustionCase /\ ~EvEmptyCase) =>
    /\ Len(questions) = ev.n
    /\ userAnswers = EmptyAnswers
    /\ stage = "questionnaire"

\* C7 amended: outside the exhaustion and the empty case the accepted list is
\* the filtered list cut to its first desiredQuestionCount entries, so it has
\* min(desiredQuestionCount, filtered count) entries; answers is empty and the
\* stage is questionnaire.
C7_FilteredTruncated ==
  (ev.op = "genAccept" /\ ~EvExhaustionCase /\ ~EvEmptyCase) =>
    /\ Len(questions) = Min(ev.n, Len(EvFiltered))
    /\ \A i \in DOMAIN questions : questions[i] = EvFiltered[i]
    /\ userAnswers = EmptyAnswers
    /\ stage = "questionnaire"

C7_Witness ==
  /\ ev.op = "genAccept"
  /\ ~EvExhaustionCase
  /\ ~EvEmptyCase
  /\ Len(EvFiltered) > ev.n
  /\ Len(EvFiltered) < Len(ev.parsed)
  /\ Len(questions) = ev.n

\* C8: right after a generation completes successfully, questions is the
\* accepted list, answers and unansweredIndices are empty, the validation
\* error is cleared and the stage is questionnaire.
C8_StateAfterGeneration ==
  ev.op = "genAccept" =>
    /\ userAnswers = EmptyAnswers
    /\ unansweredQuestionIndices = {}
    /\ questionnaireError = Null
    /\ stage = "questionnaire"

\* C9: a failing generateQuestions leaves stage, questions and answers as they
\* were, sets the general error and leaves busy false.
C9_GenerationFailure ==
  [][ev'.op \in GenFailureOps =>
       /\ stage' = stage
       /\ questions' = questions
       /\ userAnswers' = userAnswers
       /\ error' # Null
       /\ aiLoading' = FALSE
     ]_vars

C9_Witness ==
  /\ ev.op \in GenFailureOps
  /\ stage = "questionnaire"
  /\ userAnswers # EmptyAnswers
  /\ error # Null
  /\ ~aiLoading

\* C10: when the analysis request fails, the stage is questionnaire afterwards,
\* questions and answers are unchanged, analysis is unset, the asked-record is
\* not written, the general error is set and busy is false.
C10_AnalysisFailureStaysInQuestionnaire ==
  [][ev'.op \in AnalysisFailureOps =>
       /\ stage' = "questionnaire"
       /\ questions' = questions
       /\ userAnswers' = userAnswers
       /\ analysisResult' = Null
       /\ store' = store
       /\ error' # Null
       /\ aiLoading' = FALSE
     ]_vars

\* The failing step of analyzeResults by itself: it changes nothing but the
\* general error, busy and the outstanding call.
AnalysisFailureStepFrame ==
  [][ev'.op \in AnalysisFailureOps =>
       /\ stage' = stage
       /\ questions' = questions
       /\ userAnswers' = userAnswers
       /\ analysisResult' = Null
       /\ store' = store
       /\ error' # Null
       /\ aiLoading' = FALSE
     ]_vars

\* C11: once the analysis step has succeeded the submission proceeds whatever
\* becomes of the stability request: it is on its way through the stability
\* and store steps, or it has ended in stage results without an error.
C11_StabilityFailureIsNonFatal ==
  ev.op = "analysisWellFormed" =>
    \/ \E c \in Outstanding :
         /\ c.kind = "analyzeResults"
         /\ c.pc \in {"stability", "getDoc", "setDoc"}
         /\ c.qs = ev.parsed
    \/ stage = "results" /\ error = Null

\* C12: a submission whose analysis step succeeded leaves the asked-record of
\* its topic equal to the union of the previous entries and the texts of the
\* session's questions, no text twice.
C12_RecordIsUnionAfterAnalysis ==
  [][(ev'.op = "analysisWellFormed" /\ DocId(ev'.topic) \in DocIds) =>
       LET id == DocId(ev'.topic)
       IN  /\ Range(store'[id]) = Range(store[id]) \cup Range(ev'.parsed)
           /\ NoDup(store'[id])
     ]_vars

\* C13: confirmExit leaves the session as it is initially except for stage =
\* topicSelection: topic, questions and answers empty, analysis and stability
\* unset, no flagged index, no validation error, topic warning or general
\* error, no custom text, desiredQuestionCount 5, the modal closed, busy false.
C13_ConfirmExitResets ==
  [][ev'.op = "confirmExitTest" =>
       /\ stage' = "topicSelection"
       /\ selectedTopic' = ""
       /\ questions' = <<>>
       /\ userAnswers' = EmptyAnswers
       /\ analysisResult' = Null
       /\ stabilityLevels' = Null
       /\ unansweredQuestionIndices' = {}
       /\ questionnaireError' = Null
       /\ error' = Null
       /\ customTopic' = ""
       /\ showTopicWarning' = FALSE
       /\ topicWarningMessage' = NoWarningMessage
       /\ numQuestions' = DefaultNumQuestions
       /\ showExitConfirmation' = FALSE
       /\ aiLoading' = FALSE
     ]_vars

\* C14: startNewTest, offered in the results view a successful analysis leads
\* to, yields the initial session: stage welcome, topic, questions and answers
\* empty, analysis and stability unset, no flagged index, no validation error
\* or topic warning, no custom text, desiredQuestionCount 5.
C14_StartNewTestResets ==
  ev.op = "analysisWellFormed" =>
    /\ stage = "results"
    /\ analysisResult # Null
    /\ StartNewTest(Session) = InitialSession

\* The topic selection specification: the welcome and topic selection views
\* with every text of TopicTexts typed into the custom topic input, and the
\* validations and generations started there run to their end.
NextTopic ==
  \/ StartTest
  \/ Back
  \/ \E n \in NumQuestionsChoices : SetNumQuestions(n)
  \/ \E text \in TopicTexts : TypeCustomTopic(text)
  \/ \E topic \in psychologicalTopics : SelectTopic(topic)
  \/ ValidateEmpty
  \/ ValidateStart
  \/ Reload
  \/ \E c \in Outstanding : GenDocRead(c)
  \/ \E c \in Outstanding : GenDocReadThrows(c)
  \/ \E c \in Outstanding : GenFetchThrows(c)
  \/ \E c \in Outstanding : GenNoCandidates(c)
  \/ \E c \in Outstanding, parsedQuestions \in Responses : GenParsed(c, parsedQuestions)
  \/ \E c \in Outstanding : GenSetDocDone(c)
  \/ \E c \in Outstanding : GenSetDocThrows(c)
  \/ \E c \in Outstanding : ClassifyThrows(c)
  \/ \E c \in Outstanding : ClassifyNoCandidates(c)
  \/ \E c \in Outstanding : ClassifyOnDomain(c)
  \/ \E c \in Outstanding, reason \in Reasons : ClassifyOffDomain(c, reason)

SpecTopic == Init /\ [][NextTopic]_vars

\* the typed texts that are empty or white space only
BlankTexts == {"", " "}

GenerationsIn(b) == {c \in BagToSet(b) : c.kind = "generateQuestions"}

\* C16: when the classifier reports the custom topic off-domain, the stage is
\* topicSelection afterwards, the warning carries the service's reason, the
\* topic is not set, and that validation starts no generateQuestions.
C16_OffDomainStaysInTopicSelection ==
  [][ev'.op = "classifyOffDomain" =>
       /\ stage' = "topicSelection"
       /\ showTopicWarning' = TRUE
       /\ \E reason \in Reasons : topicWarningMessage' = MsgOffDomain(reason)
       /\ selectedTopic' = selectedTopic
       /\ GenerationsIn(calls') \subseteq GenerationsIn(calls)
     ]_vars

\* The step that handles the off-domain answer by itself: it changes nothing
\* but the warning, busy and the outstanding call.
OffDomainStepFrame ==
  [][ev'.op = "classifyOffDomain" =>
       /\ stage' = stage
       /\ showTopicWarning' = TRUE
       /\ \E reason \in Reasons : topicWarningMessage' = MsgOffDomain(reason)
       /\ selectedTopic' = selectedTopic
       /\ questions' = questions
       /\ GenerationsIn(calls') \subseteq GenerationsIn(calls)
     ]_vars

\* The questionnaire specification: a predefined topic is selected and the
\* questionnaire is answered, with either option of AnswerOptions, and
\* submitted.
NextAnswers ==
  \/ StartTest
  \/ \E topic \in psychologicalTopics : SelectTopic(topic)
  \/ \E c \in Outstanding : GenDocRead(c)
  \/ \E c \in Outstanding, parsedQuestions \in Responses : GenParsed(c, parsedQuestions)
  \/ \E c \in Outstanding : GenSetDocDone(c)
  \/ \E i \in 0..MaxReturned, o \in AnswerOptions : HandleAnswerChange(i, o)
  \/ SubmitInvalid
  \/ SubmitStart
  \/ \E c \in Outstanding : AnalysisThrows(c)
  \/ \E c \in Outstanding : AnalysisNoCandidates(c)
  \/ \E c \in Outstanding, value \in AnalysisValues : AnalysisWellFormed(c, value)

SpecAnswers == Init /\ [][NextAnswers]_vars

\* C17: recordAnswer(index, option) in stage questionnaire sets answers[index]
\* to the option and leaves every other answer as it was; a flagged index is
\* removed from unansweredIndices, and the validation error is cleared when
\* that index was the last flagged one and kept otherwise.
C17_RecordAnswer ==
  [][ev'.op = "handleAnswerChange" =>
       LET index == ev'.n
       IN  /\ stage = "questionnaire"
           /\ DOMAIN userAnswers' = DOMAIN userAnswers \cup {index}
           /\ userAnswers'[index] = ev'.answer
           /\ \A k \in DOMAIN userAnswers : k # index => userAnswers'[k] = userAnswers[k]
           /\ IF index \in unansweredQuestionIndices
                THEN /\ unansweredQuestionIndices' = unansweredQuestionIndices \ {index}
                     /\ questionnaireError' =
                          IF unansweredQuestionIndices = {index}
                            THEN Null ELSE questionnaireError
                ELSE /\ unansweredQuestionIndices' = unansweredQuestionIndices
                     /\ questionnaireError' = questionnaireError
     ]_vars

\* the second of two flagged questions answered: the first stays flagged and
\* unanswered, and the validation error is kept
C17_Witness ==
  /\ ev.op = "handleAnswerChange"
  /\ ev.n = 1
  /\ ev.answer = "Disagree"
  /\ ev.flagged = {0, 1}
  /\ DOMAIN userAnswers = {1}
  /\ userAnswers[1] = "Disagree"
  /\ unansweredQuestionIndices = {0}
  /\ questionnaireError # Null

\* the segments that start recordAnswer and submitForAnalysis
QuestionnaireOps == {"handleAnswerChange", "submitInvalid", "submitStart"}

C19_BusyWhileOutstanding ==
  Outstanding # {} => aiLoading

\* C20: at most one of generateQuestions, submitForAnalysis and
\* validateCustomTopic is in flight at any time.
C20_AtMostOneInFlight ==
  BagCardinality(calls) <= 1

\* C21: results is never a dead end: in the results view a successful
\* analysis leads to, also after a failed exportResults, startNewTest is
\* offered and leads to stage welcome.
C21_ResultsOffersStartNewTest ==
  ev.op = "analysisWellFormed" =>
    /\ StartNewTestOffered(Session)
    /\ StartNewTestOffered(DownloadPdfFails(Session))
    /\ StartNewTest(Session).stage = "welcome"

\* the segments that end in a validation failure, and those in which a
\* service, network or parse failure is handled
ValidationFailureOps == {"submitInvalid", "validateEmpty", "classifyOffDomain"}
ServiceFailureOps ==
  {"genThrow", "genNoCandidates", "analysisThrow", "analysisNoCandidates",
   "analysisWellFormed", "classifyThrow", "classifyNoCandidates"}

\* C23: the two error channels are never conflated: a validation failure
\* (missing answers, empty or off-domain custom topic) leaves the general
\* error as it was, and a service, network or parse failure leaves the
\* questionnaire validation error and the topic warning as they were.
C23_ErrorChannelsApart ==
  [][(ev'.op \in ValidationFailureOps =>
        (error' = error /\ (questionnaireError' # Null \/ showTopicWarning')))
     /\ (ev'.op \in ServiceFailureOps =>
           (/\ error' # Null
            /\ questionnaireError' = questionnaireError
            /\ showTopicWarning' = showTopicWarning
            /\ topicWarningMessage' = topicWarningMessage))]_vars

\* the off-domain warning shown with no general error
C23_Witness ==
  /\ ev.op = "classifyOffDomain"
  /\ showTopicWarning
  /\ \E reason \in Reasons : topicWarningMessage = MsgOffDomain(reason)
  /\ error = Null
  /\ questionnaireError = Null

\* C24: every step that changes the questions sequence (a generateQuestions
\* completion, confirmExitTest, Start New Test) resets the answers to empty
\* in the same step.
C24_NewQuestionsResetAnswers ==
  [][/\ questions' # questions => userAnswers' = EmptyAnswers
     /\ StartNewTest(Session).questions # questions =>
          StartNewTest(Session).userAnswers = EmptyAnswers]_vars

\* the exit confirmed on a questionnaire that had questions
C24_Witness ==
  /\ ev.op = "confirmExitTest"
  /\ ev.parsed # <<>>
  /\ questions = <<>>
  /\ userAnswers = EmptyAnswers

\* the invocations of analyzeResults that are past step (a)
PastAnalysis(b) ==
  {c \in BagToSet(b) : c.kind = "analyzeResults" /\ c.pc # "analysis"}

\* the segments of analyzeResults
AnalysisOps == AnalysisFailureOps \cup {"submitStart", "analysisWellFormed"}

C26_OnDomainBehavesAsSelectTopic ==
  [][ev'.op = "classifyOnDomain" =>
       /\ \E n \in NumQuestionsChoices :
            CopiesIn(GenerateQuestionsCall(selectedTopic', n), calls')
              > CopiesIn(GenerateQuestionsCall(selectedTopic', n), calls)
       /\ aiLoading' = TRUE
       /\ stage' = stage
       /\ questions' = questions
       /\ userAnswers' = userAnswers
       /\ error' = Null
       /\ questionnaireError' = Null
       /\ unansweredQuestionIndices' = {}
    ]_vars

\* C27: the exit-confirmation modal is open only while stage =
\* questionnaire; requestExit and cancelExit change nothing but the modal
\* flag, so requestExit followed by cancelExit restores the prior session.
C27_ExitModalOnlyFlag ==
  [][/\ showExitConfirmation' => stage' = "questionnaire"
     /\ ev'.op \in {"requestExit", "cancelExit"} =>
          /\ showExitConfirmation = (ev'.op = "cancelExit")
          /\ showExitConfirmation' = (ev'.op = "requestExit")
          /\ UNCHANGED <<stage, selectedTopic, questions, userAnswers,
                         analysisResult, stabilityLevels, aiLoading,
                         customTopic, showTopicWarning, topicWarningMessage,
                         numQuestions, unansweredQuestionIndices,
                         questionnaireError, error, store, calls>>
    ]_vars

\* Cancel pressed on a questionnaire with an answer given and an index
\* flagged: all of it is still there
C27_Witness ==
  /\ ev.op = "cancelExit"
  /\ ~showExitConfirmation
  /\ stage = "questionnaire"
  /\ questions # <<>>
  /\ userAnswers # EmptyAnswers
  /\ unansweredQuestionIndices # {}
  /\ questionnaireError # Null

\* C28: in every reachable state the questionnaire validation error is set
\* if and only if unansweredQuestionIndices is non-empty.
C28_ErrorIffFlagged ==
  (questionnaireError # Null) <=> (unansweredQuestionIndices # {})

\* after a failed submit on two questions, the last question still flagged is
\* answered: the error goes with the last flag
C28_Witness ==
  /\ ev.op = "handleAnswerChange"
  /\ ev.flagged = {ev.n}
  /\ DOMAIN userAnswers = {0, 1}
  /\ unansweredQuestionIndices = {}
  /\ questionnaireError = Null

\* C29: in every reachable state every index in unansweredQuestionIndices
\* is a valid index of the current questions and has no entry in the
\* answers, also when a generation completes after a failed submit.
C29_FlaggedAreUnanswered ==
  \A i \in unansweredQuestionIndices :
    /\ i \in 0 .. (Len(questions) - 1)
    /\ i \notin DOMAIN userAnswers

\* ---------------------------------------------------------------------
\* The three handlers that set the busy flag, with the external calls they
\* wait for returning or failing in the end.

\* one outstanding external call returns or fails and its handler goes on
Completes ==
  \E c \in Outstanding :
    \/ GenDocRead(c)
    \/ GenDocReadThrows(c)
    \/ GenFetchThrows(c)
    \/ GenNoCandidates(c)
    \/ \E parsedQuestions \in Responses : GenParsed(c, parsedQuestions)
    \/ GenSetDocDone(c)
    \/ GenSetDocThrows(c)
    \/ AnalysisThrows(c)
    \/ AnalysisNoCandidates(c)
    \/ \E value \in AnalysisValues : AnalysisWellFormed(c, value)
    \/ ClassifyThrows(c)
    \/ ClassifyNoCandidates(c)
    \/ ClassifyOnDomain(c)
    \/ \E reason \in Reasons : ClassifyOffDomain(c, reason)

NextBusy ==
  \/ StartTest
  \/ \E text \in CustomTexts : TypeCustomTopic(text)
  \/ \E topic \in psychologicalTopics : SelectTopic(topic)
  \/ ValidateEmpty
  \/ ValidateStart
  \/ \E i \in 0..MaxReturned, o \in Options : HandleAnswerChange(i, o)
  \/ SubmitInvalid
  \/ SubmitStart
  \/ \E c \in Outstanding : GenDocRead(c)
  \/ \E c \in Outstanding : GenDocReadThrows(c)
  \/ \E c \in Outstanding : GenFetchThrows(c)
  \/ \E c \in Outstanding : GenNoCandidates(c)
  \/ \E c \in Outstanding, parsedQuestions \in Responses : GenParsed(c, parsedQuestions)
  \/ \E c \in Outstanding : GenSetDocDone(c)
  \/ \E c \in Outstanding : GenSetDocThrows(c)
  \/ \E c \in Outstanding : AnalysisThrows(c)
  \/ \E c \in Outstanding : AnalysisNoCandidates(c)
  \/ \E c \in Outstanding, value \in AnalysisValues : AnalysisWellFormed(c, value)
  \/ \E c \in Outstanding : ClassifyThrows(c)
  \/ \E c \in Outstanding : ClassifyNoCandidates(c)
  \/ \E c \in Outstanding : ClassifyOnDomain(c)
  \/ \E c \in Outstanding, reason \in Reasons : ClassifyOffDomain(c, reason)

SpecBusy == Init /\ [][NextBusy]_vars /\ WF_vars(Completes)

\* C30: busy never stays stuck at true: whenever no external call is
\* outstanding busy is false, and, every outstanding call returning or
\* failing in the end, busy true always leads to busy false.
C30_BusyNeverStuck ==
  /\ [](calls = EmptyBag => ~aiLoading)
  /\ aiLoading ~> ~aiLoading

\* the classification request failed: nothing is outstanding, busy is false
C30_Witness ==
  /\ ev.op = "classifyThrow"
  /\ error = ErrValidateThrown
  /\ calls = EmptyBag
  /\ ~aiLoading

\* C31: whenever stage = questionnaire the topic is non-empty and the
\* current questions are the ones accepted by the generation started for
\* the current topic: right after an acceptance, the topic of the accepting
\* generation is the selected topic.
C31_QuestionsBelongToTopic ==
  stage = "questionnaire" =>
    /\ selectedTopic # ""
    /\ ev.op = "genAccept" => ev.topic = selectedTopic

\* C32: while stage = questionnaire the questions sequence is not replaced
\* and no recorded answer is removed except by confirmExitTest: no
\* completion of an earlier or concurrent generation wipes the answers of a
\* questionnaire in progress.
C32_QuestionnaireNotReplaced ==
  [][(stage = "questionnaire" /\ ev'.op # "confirmExitTest") =>
       /\ questions' = questions
       /\ DOMAIN userAnswers \subseteq DOMAIN userAnswers'
    ]_vars

\* C33: whenever stage = questionnaire the questions sequence is non-empty,
\* and the Analysis Service is never invoked with an empty (question,
\* answer) set, also when the Question Service returned an empty list with
\* an empty asked-record.
C33_QuestionnaireHasQuestions ==
  /\ stage = "questionnaire" => questions # <<>>
  /\ \A c \in Outstanding : c.kind = "analyzeResults" => c.qs # <<>>

====
